---- MODULE Spec2Model ----
(***************************************************************************)
(* A model of app/src/script.js, the background script of the conviction   *)
(* voting app: retryEvery (exponential backoff), the bootstrap that joins   *)
(* three address calls and wires the store, initState (the cache merge)     *)
(* and the event reducer.                                                   *)
(*                                                                          *)
(* JavaScript values are modelled by what the code can tell apart:          *)
(*   - a string that is parsed or decoded is a sequence of one-character    *)
(*     strings, every other string is an opaque TLA+ string;                *)
(*   - a number is [k |-> "num", v |-> n] or NaN;                           *)
(*   - arrays are objects on a heap (addr -> contents), because push        *)
(*     changes an array in place and every state that holds its address     *)
(*     sees the change; a state object is a record with an identity `ref`   *)
(*     and the addresses of its two arrays.                                 *)
(***************************************************************************)
EXTENDS Integers, Sequences, FiniteSets, TLC

-----------------------------------------------------------------------------
(* Bounds of the model *)

\* retryEvery is explored for maxRetries in 0..MaxRetriesBound
MaxRetriesBound == 4
\* proposals and conviction stakes appended in one run, together
MaxEntries == 2

-----------------------------------------------------------------------------
(* Numbers and parseInt *)

NaN == [k |-> "NaN", v |-> 0]

Num(n) == [k |-> "num", v |-> n]

\* JavaScript's === on numbers: NaN is equal to nothing, itself included
StrictEq(a, b) == a.k = "num" /\ b.k = "num" /\ a.v = b.v

IsWhiteSpace(c) == c \in {" ", "\t", "\n"}

DigitValue(c) ==
    CASE c = "0" -> 0 [] c = "1" -> 1 [] c = "2" -> 2 [] c = "3" -> 3
      [] c = "4" -> 4 [] c = "5" -> 5 [] c = "6" -> 6 [] c = "7" -> 7
      [] c = "8" -> 8 [] c = "9" -> 9
      [] c \in {"a", "A"} -> 10 [] c \in {"b", "B"} -> 11
      [] c \in {"c", "C"} -> 12 [] c \in {"d", "D"} -> 13
      [] c \in {"e", "E"} -> 14 [] c \in {"f", "F"} -> 15
      [] OTHER -> 99

RECURSIVE TrimLeft(_)
TrimLeft(s) ==
    IF s # <<>> /\ IsWhiteSpace(Head(s)) THEN TrimLeft(Tail(s)) ELSE s

\* the value of the longest prefix of s made of digits of the radix, with
\* the number of digits consumed
RECURSIVE DigitPrefix(_, _, _, _)
DigitPrefix(s, radix, acc, n) ==
    IF s # <<>> /\ DigitValue(Head(s)) < radix
    THEN DigitPrefix(Tail(s), radix, acc * radix + DigitValue(Head(s)), n + 1)
    ELSE [value |-> acc, digits |-> n]

\* parseInt(string) with no radix argument: leading white space is skipped,
\* a sign is read, a 0x or 0X prefix selects radix 16 (radix 10 otherwise),
\* the longest prefix of digits is converted and the rest is ignored; NaN
\* when there is no digit.
parseInt(str) ==
    LET t    == TrimLeft(str)
        neg  == t # <<>> /\ Head(t) = "-"
        u    == IF t # <<>> /\ Head(t) \in {"-", "+"} THEN Tail(t) ELSE t
        hex  == Len(u) >= 2 /\ u[1] = "0" /\ u[2] \in {"x", "X"}
        body == IF hex THEN Tail(Tail(u)) ELSE u
        p    == DigitPrefix(body, IF hex THEN 16 ELSE 10, 0, 0)
    IN  IF p.digits = 0 THEN NaN
        ELSE Num(IF neg THEN 0 - p.value ELSE p.value)

-----------------------------------------------------------------------------
(* retryEvery *)

VARIABLES
    opts,         \* the options of the retryEvery invocation
    rpc,          \* "attempt" | "sleeping" | "resolved" | "rejected"
    retryNum,     \* let retryNum
    retryTimer,   \* the argument of the attempt in progress
    outcomes,     \* one entry per callback() invocation: "ok" | "err"
    waits,        \* the times handed to sleep(), in order
    settled       \* how the promise of retryEvery settled, and by which call

retryVars == <<opts, rpc, retryNum, retryTimer, outcomes, waits, settled>>

initialRetryTimerDefault == 1000
increaseFactorDefault == 3
maxRetriesDefault == 3

DefaultOptions ==
    [initialRetryTimer |-> initialRetryTimerDefault,
     increaseFactor    |-> increaseFactorDefault,
     maxRetries        |-> maxRetriesDefault]

\* the option values retryEvery is explored with
OptionSamples ==
    [initialRetryTimer : {1000, 500},
     increaseFactor    : {2, 3},
     maxRetries        : 0 .. MaxRetriesBound]

Pending == [kind |-> "pending", call |-> 0]

\* retryEvery(callback, o) up to the first attempt(): retryNum = 0 and
\* attempt() is entered with retryTimer = initialRetryTimer
RetryStart(o) ==
    /\ opts = o
    /\ rpc = "attempt"
    /\ retryNum = 0
    /\ retryTimer = o.initialRetryTimer
    /\ outcomes = <<>>
    /\ waits = <<>>
    /\ settled = Pending

\* a mutant of GiveUp: the test is made one failure too late
GiveUpLate(n, max) == n > max

\* if (retryNum === maxRetries) throw err
GiveUp(n, max) == n = max

\* a mutant of NextRetryTime: the delay does not grow
NextRetryTimeFlat(timer, factor) == timer

\* const nextRetryTime = retryTimer * increaseFactor
NextRetryTime(timer, factor) == timer * factor

\* the error thrown when attempt() gives up: the err it has just caught
ThrownError(calls) == calls

\* a mutant of OnSuccess: the value is kept but attempt() does not return
OnSuccessKeepsGoing(calls) ==
    /\ rpc' = "sleeping"
    /\ settled' = [kind |-> "resolved", call |-> calls]
    /\ UNCHANGED <<retryNum, retryTimer, waits>>

\* return await callback(): the promise resolves with the value of this call
OnSuccess(calls) ==
    /\ rpc' = "resolved"
    /\ settled' = [kind |-> "resolved", call |-> calls]
    /\ UNCHANGED <<retryNum, retryTimer, waits>>

\* one attempt(retryTimer): callback() is invoked and either returns (ok) or
\* throws; the error of the k-th invocation is identified by k
Attempt(ok) ==
    /\ rpc = "attempt"
    /\ outcomes' = Append(outcomes, IF ok THEN "ok" ELSE "err")
    /\ UNCHANGED opts
    /\ LET calls == Len(outcomes) + 1
       IN  IF ok
           THEN OnSuccess(calls)
           ELSE IF GiveUp(retryNum, opts.maxRetries)
                THEN /\ rpc' = "rejected"
                     /\ settled' = [kind |-> "rejected",
                                    call |-> ThrownError(calls)]
                     /\ UNCHANGED <<retryNum, retryTimer, waits>>
                ELSE LET nextRetryTime ==
                             NextRetryTime(retryTimer, opts.increaseFactor)
                     IN  /\ retryNum' = retryNum + 1
                         /\ rpc' = "sleeping"
                         /\ waits' = Append(waits, nextRetryTime)
                         /\ retryTimer' = nextRetryTime
                         /\ UNCHANGED settled

\* the timer of sleep() fires: return attempt(nextRetryTime)
WakeUp ==
    /\ rpc = "sleeping"
    /\ rpc' = "attempt"
    /\ UNCHANGED <<opts, retryNum, retryTimer, outcomes, waits, settled>>

-----------------------------------------------------------------------------
(* Values of the chain *)

Undefined == [k |-> "undefined"]

Null == [k |-> "null"]

Str(chars) == [k |-> "str", s |-> chars]

\* JavaScript truthiness of a link value: "", null and undefined are falsy
Truthy(x) == x.k = "str" /\ x.s # <<>>

\* an address is a string of hex digits; `a` names the account and `c` the
\* letter case it is written in ("checksum" or "lower")
Address(account, case) == [a |-> account, c |-> case]

\* the three addresses the bootstrap resolved, as the contract returned them
stakeTokenAddress == Address("stakeToken", "checksum")
vaultAddress == Address("vault", "checksum")
requestTokenAddress == Address("requestToken", "checksum")

\* addressesEqual of lib/web3-utils: equality of accounts whatever the
\* letter case, false when an address is missing
addressesEqual(first, second) ==
    /\ first # Undefined
    /\ second # Undefined
    /\ first.a = second.a

\* the character of a byte, for the bytes the sample links use
CharOfByte(b) ==
    CASE b = 104 -> "h" [] b = 105 -> "i" [] b = 47 -> "/" [] OTHER -> "?"

RECURSIVE DecodeBytes(_)
DecodeBytes(hex) ==
    IF Len(hex) < 2 THEN <<>>
    ELSE <<CharOfByte(16 * DigitValue(hex[1]) + DigitValue(hex[2]))>>
             \o DecodeBytes(Tail(Tail(hex)))

\* toUtf8 of lib/web3-utils: the text of a 0x-prefixed hex string, two hex
\* digits per character
toUtf8(hex) ==
    IF Len(hex) >= 2 /\ hex[1] = "0" /\ hex[2] \in {"x", "X"}
    THEN DecodeBytes(Tail(Tail(hex)))
    ELSE DecodeBytes(hex)

-----------------------------------------------------------------------------
(* The store: state objects, arrays, events *)

VARIABLES
    pc,       \* "retry" | "bootstrap" | "wired" | "produced" | "running"
              \* | "initFailed"
    boot,     \* what the bootstrap callback has done so far
    cache,    \* the cachedState the store hands to init, or Undefined
    state,    \* the state object the store holds, or Undefined
    heap,     \* the arrays: address -> contents (<<>> when free)
    last      \* the last init or reduction: its input, outcome and calls

storeVars == <<pc, boot, cache, state, heap, last>>

vars == <<retryVars, storeVars>>

Refs == 1 .. 3

Addrs == 1 .. 4

EmptyHeap == [a \in Addrs |-> <<>>]

\* a new object: the smallest address no live object has
NewRef(live) == CHOOSE r \in Refs \ live : \A q \in Refs \ live : r <= q

NewAddr(live) == CHOOSE a \in Addrs \ live : \A b \in Addrs \ live : a <= b

\* the arrays of h that S does not reach are freed
Collect(h, S) ==
    [a \in Addrs |->
        IF a \in {S.proposals, S.convictionStakes} THEN h[a] ELSE <<>>]

\* Addresses are names. After a step the objects are renamed: the state R
\* the store now holds is object 1 with its arrays at 1 and 2, and the
\* step's input S is object 2 when it is another object, with each array
\* it does not share with R at 3 or 4. Nothing else is reachable.
RenamedState(R) == [R EXCEPT !.ref = 1, !.proposals = 1, !.convictionStakes = 2]

RenamedInput(R, S) ==
    [S EXCEPT !.ref = IF S.ref = R.ref THEN 1 ELSE 2,
              !.proposals = IF S.proposals = R.proposals THEN 1 ELSE 3,
              !.convictionStakes =
                  IF S.convictionStakes = R.convictionStakes THEN 2 ELSE 4]

RenamedHeap(R, S, h) ==
    [a \in Addrs |->
        CASE a = 1 -> h[R.proposals]
          [] a = 2 -> h[R.convictionStakes]
          [] a = 3 -> IF S.proposals = R.proposals THEN <<>>
                      ELSE h[S.proposals]
          [] a = 4 -> IF S.convictionStakes = R.convictionStakes THEN <<>>
                      ELSE h[S.convictionStakes]]

\* what an observer holding the state object S sees, arrays included
Deref(S, h) ==
    [proposals        |-> h[S.proposals],
     convictionStakes |-> h[S.convictionStakes],
     globalParams     |-> S.globalParams,
     stakeToken       |-> S.stakeToken,
     requestToken     |-> S.requestToken,
     isSyncing        |-> S.isSyncing]

\* { ...S }: a new object with the fields of S; the arrays are shared
Spread(S, live) == [S EXCEPT !.ref = NewRef(live)]

SYNC_STATUS_SYNCING == "SYNC_STATUS_SYNCING"

SYNC_STATUS_SYNCED == "SYNC_STATUS_SYNCED"

EventNames ==
    {"ProposalAdded", "StakeChanged", "ProposalExecuted", "Transfer",
     SYNC_STATUS_SYNCING, SYNC_STATUS_SYNCED, "VaultDeposit"}

\* the sources of the events: the stake token (as a node reports it, in
\* lower case), the vault, the app itself, and no address (a sync marker)
EventAddresses ==
    {Address("stakeToken", "lower"), vaultAddress,
     Address("app", "checksum"), Undefined}

\* sample returnValues; each holds every field some case of the reducer reads
ReturnValuesSamples ==
    {[entity |-> "A", id |-> <<"1">>, title |-> "Fund X",
      amount |-> <<"5", "0", "0">>, beneficiary |-> "B", link |-> Str(<<>>),
      tokensStaked |-> <<"1", "0">>, totalTokensStaked |-> <<"1", "0">>,
      conviction |-> <<"5">>, token |-> requestTokenAddress],
     [entity |-> "C", id |-> <<" ", "2">>, title |-> "Fund Y",
      amount |-> <<"0", "x", "1", "0">>, beneficiary |-> "A",
      link |-> Str(<<"0", "x", "6", "8", "6", "9">>),
      tokensStaked |-> <<"3">>, totalTokensStaked |-> <<"1", "3">>,
      conviction |-> <<"8", "e">>, token |-> Address("otherToken", "checksum")],
     [entity |-> "B", id |-> <<"x">>, title |-> "Fund Z",
      amount |-> <<>>, beneficiary |-> "B", link |-> Null,
      tokensStaked |-> <<"-", "1">>, totalTokensStaked |-> <<"1", "2">>,
      conviction |-> <<"0">>, token |-> Address("requestToken", "lower")]}

BlockNumbers == {100, 101}

\* the events the store delivers; only StakeChanged reads blockNumber, so
\* the other events are taken at one block
Events ==
    {ev \in [event : EventNames, address : EventAddresses,
             returnValues : ReturnValuesSamples, blockNumber : BlockNumbers] :
        ev.event = "StakeChanged" \/ ev.blockNumber = 100}

\* what a contract read answers: a value, or a rejection
TotalSupplyAnswers ==
    {[ok |-> TRUE, value |-> "2000"],
     [ok |-> FALSE, value |-> "totalSupply rejected"]}

\* updateBalances([], token, app, vault): a one-element list, or a rejection
BalancesAnswers ==
    {[ok |-> TRUE, value |-> <<[symbol |-> "DAI", amount |-> "6"]>>,
      error |-> "none"],
     [ok |-> TRUE, value |-> <<[symbol |-> "DAI", amount |-> "7"]>>,
      error |-> "none"],
     [ok |-> FALSE, value |-> <<>>, error |-> "updateBalances rejected"]}

-----------------------------------------------------------------------------
(* The reducer *)

Fulfilled(S, h) == [status |-> "ok", state |-> S, heap |-> h]

Rejected(S, h, err) == [status |-> "rejected", state |-> S, heap |-> h, error |-> err]

\* a mutant of LinkOf: the link is stored as it came, not decoded
LinkOfRaw(link) == link

\* link && toUtf8(link)
LinkOf(link) == IF Truthy(link) THEN Str(toUtf8(link.s)) ELSE link

\* const newProposal = { id, name, link, requestedAmount, creator, beneficiary }
NewProposal(returnValues) ==
    [id              |-> parseInt(returnValues.id),
     name            |-> returnValues.title,
     link            |-> LinkOf(returnValues.link),
     requestedAmount |-> parseInt(returnValues.amount),
     creator         |-> returnValues.entity,
     beneficiary     |-> returnValues.beneficiary]

\* a mutant of NewStake: the stake is dated one block late
NewStakeNextBlock(returnValues, blockNumber) ==
    [entity            |-> returnValues.entity,
     proposal          |-> parseInt(returnValues.id),
     tokensStaked      |-> parseInt(returnValues.tokensStaked),
     totalTokensStaked |-> parseInt(returnValues.totalTokensStaked),
     time              |-> blockNumber + 1,
     conviction        |-> parseInt(returnValues.conviction)]

\* the object pushed on convictionStakes
NewStake(returnValues, blockNumber) ==
    [entity            |-> returnValues.entity,
     proposal          |-> parseInt(returnValues.id),
     tokensStaked      |-> parseInt(returnValues.tokensStaked),
     totalTokensStaked |-> parseInt(returnValues.totalTokensStaked),
     time              |-> blockNumber,
     conviction        |-> parseInt(returnValues.conviction)]

\* a mutant of Push: the entry is put in front (unshift)
Unshift(h, addr, x) == [h EXCEPT ![addr] = <<x>> \o @]

\* array.push(x): the array object itself changes
Push(h, addr, x) == [h EXCEPT ![addr] = Append(@, x)]

\* { ...proposal, executed: true }
WithExecuted(proposal) ==
    [id              |-> proposal.id,
     name            |-> proposal.name,
     link            |-> proposal.link,
     requestedAmount |-> proposal.requestedAmount,
     creator         |-> proposal.creator,
     beneficiary     |-> proposal.beneficiary,
     executed        |-> TRUE]

\* a mutant of MarkExecuted: ids are compared as values, NaN equal to NaN
MarkExecutedSameValue(proposal, id) ==
    IF proposal.id = parseInt(id) THEN WithExecuted(proposal) ELSE proposal

\* the callback of proposals.map in the ProposalExecuted case
MarkExecuted(proposal, id) ==
    IF StrictEq(proposal.id, parseInt(id)) THEN WithExecuted(proposal)
    ELSE proposal

\* getRequestTokenSettings: { ...(await updateBalances(...))[0], address }
getRequestTokenSettings(address, balances) ==
    IF balances = <<>>
    THEN [address |-> address]
    ELSE [symbol |-> balances[1].symbol, amount |-> balances[1].amount,
          address |-> address]

\* case 'ProposalAdded' of the switch (event)
ProposalAddedCase(nextState, h, ev) ==
    Fulfilled(nextState,
              Push(h, nextState.proposals, NewProposal(ev.returnValues)))

\* case 'StakeChanged'
StakeChangedCase(nextState, h, ev) ==
    Fulfilled(nextState,
              Push(h, nextState.convictionStakes,
                   NewStake(ev.returnValues, ev.blockNumber)))

\* case 'ProposalExecuted': proposals.map builds a new array
ProposalExecutedCase(nextState, S, h, ev) ==
    LET old   == h[nextState.proposals]
        addr  == NewAddr({S.proposals, S.convictionStakes})
        items == [i \in 1 .. Len(old) |->
                     MarkExecuted(old[i], ev.returnValues.id)]
    IN  Fulfilled([Spread(nextState, {S.ref, nextState.ref})
                       EXCEPT !.proposals = addr],
                  [h EXCEPT ![addr] = items])

\* a mutant of SyncCase: the two markers are swapped
SyncCaseSwapped(nextState, S, h, syncing) ==
    Fulfilled([Spread(nextState, {S.ref, nextState.ref})
                   EXCEPT !.isSyncing = ~syncing], h)

\* the sync markers: nextState = { ...nextState, isSyncing }
SyncCase(nextState, S, h, syncing) ==
    Fulfilled([Spread(nextState, {S.ref, nextState.ref})
                   EXCEPT !.isSyncing = syncing], h)

\* switch (event) { ... } return nextState
GenericSwitch(nextState, S, h, ev) ==
    CASE ev.event = "ProposalAdded"    -> ProposalAddedCase(nextState, h, ev)
      [] ev.event = "StakeChanged"     -> StakeChangedCase(nextState, h, ev)
      [] ev.event = "ProposalExecuted" -> ProposalExecutedCase(nextState, S, h, ev)
      [] ev.event = SYNC_STATUS_SYNCING -> SyncCase(nextState, S, h, TRUE)
      [] ev.event = SYNC_STATUS_SYNCED  -> SyncCase(nextState, S, h, FALSE)
      [] OTHER -> Fulfilled(nextState, h)

\* a mutant of StakeTokenBranch: the default case breaks instead of
\* returning, and the event goes on to the switch on the event name
StakeTokenBranchFallsThrough(nextState, S, h, ev, totalSupply) ==
    IF ev.event = "Transfer"
    THEN IF totalSupply.ok
         THEN Fulfilled(
                  [Spread(nextState, {S.ref, nextState.ref})
                       EXCEPT !.stakeToken =
                           [@ EXCEPT !.tokenSupply = totalSupply.value]], h)
         ELSE Rejected(S, h, totalSupply.value)
    ELSE GenericSwitch(nextState, S, h, ev)

\* the stake token branch: only Transfer reads the chain
StakeTokenBranch(nextState, S, h, ev, totalSupply) ==
    IF ev.event = "Transfer"
    THEN IF totalSupply.ok
         THEN Fulfilled(
                  [Spread(nextState, {S.ref, nextState.ref})
                       EXCEPT !.stakeToken =
                           [@ EXCEPT !.tokenSupply = totalSupply.value]], h)
         ELSE Rejected(S, h, totalSupply.value)
    ELSE Fulfilled(nextState, h)

\* a mutant of VaultBranch: a rejected balance update is caught and the
\* copy of the state is returned
VaultBranchCatches(nextState, S, h, ev, balances) ==
    IF balances.ok
    THEN Fulfilled(
             [Spread(nextState, {S.ref, nextState.ref})
                  EXCEPT !.requestToken =
                      getRequestTokenSettings(ev.returnValues.token,
                                              balances.value)], h)
    ELSE Fulfilled(nextState, h)

\* a mutant of VaultBranch: the new requestToken is set, not returned, and
\* the event goes on to the switch on the event name
VaultBranchByName(nextState, S, h, ev, balances) ==
    IF balances.ok
    THEN LET updated == [Spread(nextState, {S.ref, nextState.ref})
                             EXCEPT !.requestToken =
                                 getRequestTokenSettings(ev.returnValues.token,
                                                         balances.value)]
         IN  GenericSwitch(updated, S, h, ev)
    ELSE Rejected(S, h, balances.error)

\* the vault branch for the watched token
VaultBranch(nextState, S, h, ev, balances) ==
    IF balances.ok
    THEN Fulfilled(
             [Spread(nextState, {S.ref, nextState.ref})
                  EXCEPT !.requestToken =
                      getRequestTokenSettings(ev.returnValues.token,
                                              balances.value)], h)
    ELSE Rejected(S, h, balances.error)

\* a mutant of CopyOfState: let nextState = state
SameState(S) == S

\* the value of nextState after let nextState = { ...state }
CopyOfState(S) == Spread(S, {S.ref})

\* a mutant of reducer: a vault event never reaches the switch
reducerVaultReturns(S, h, ev, totalSupply, balances) ==
    LET nextState == CopyOfState(S)
    IN  IF addressesEqual(ev.address, stakeTokenAddress)
        THEN StakeTokenBranch(nextState, S, h, ev, totalSupply)
        ELSE IF addressesEqual(ev.address, vaultAddress)
             THEN IF ev.returnValues.token = requestTokenAddress
                  THEN VaultBranch(nextState, S, h, ev, balances)
                  ELSE Fulfilled(nextState, h)
             ELSE GenericSwitch(nextState, S, h, ev)

\* reducer(state, { event, returnValues, blockNumber, address }) on the heap
\* h, with the answers the chain gives to the calls it awaits
reducer(S, h, ev, totalSupply, balances) ==
    LET nextState == CopyOfState(S)
    IN  IF addressesEqual(ev.address, stakeTokenAddress)
        THEN StakeTokenBranch(nextState, S, h, ev, totalSupply)
        ELSE IF /\ addressesEqual(ev.address, vaultAddress)
                /\ ev.returnValues.token = requestTokenAddress
             THEN VaultBranch(nextState, S, h, ev, balances)
             ELSE GenericSwitch(nextState, S, h, ev)

-----------------------------------------------------------------------------
(* initState *)

RECURSIVE GCD(_, _)
GCD(a, b) == IF b = 0 THEN a ELSE GCD(b, a % b)

\* x / d for a positive integer d: NaN stays NaN, an exact quotient is a
\* number, any other quotient is kept as a fraction in lowest terms
Divide(x, d) ==
    IF x.k # "num" THEN NaN
    ELSE LET m == IF x.v < 0 THEN 0 - x.v ELSE x.v
             g == GCD(d, m)
         IN  IF g = d THEN Num(x.v \div d)
             ELSE [k |-> "frac", n |-> x.v \div g, d |-> d \div g]

AlphaDivisor == 10
MaxRatioDivisor == 10
WeightDivisor == 100

\* loadGlobalParams, given what decay, maxRatio and weight answered
loadGlobalParams(raw) ==
    [alpha    |-> Divide(parseInt(raw.decay), AlphaDivisor),
     maxRatio |-> Divide(parseInt(raw.maxRatio), MaxRatioDivisor),
     weight   |-> Divide(parseInt(raw.weight), WeightDivisor)]

\* cachedState[name], undefined when there is no such property
Property(obj, name) == IF name \in DOMAIN obj THEN obj[name] ELSE Undefined

\* hasLoadedTokenSettings of token-settings.js: whether the cached state
\* holds the token settings the resolver looks for
hasLoadedTokenSettings(cachedState) ==
    /\ cachedState # Undefined
    /\ cachedState.loadedTokenSettings

\* what the chain answers to decay, maxRatio and weight (joined)
GlobalParamsAnswers ==
    {[ok |-> TRUE,
      value |-> [decay |-> <<"9">>, maxRatio |-> <<"2", "0">>,
                 weight |-> <<"5">>]],
     [ok |-> FALSE, value |-> Undefined]}

\* what loadTokenSettings answers
TokenSettingsAnswers ==
    {[ok |-> TRUE, value |-> [tokenSymbol |-> "STK", tokenSupply |-> "1000"]],
     [ok |-> FALSE, value |-> Undefined]}

InitRejected(calls, err) == [status |-> "rejected", calls |-> calls, error |-> err]

\* a mutant of CachedGlobalParams: the cache is not consulted
CachedGlobalParamsIgnored(cachedState) == Undefined

\* (cachedState && cachedState.globalParams): falsy when either is missing
CachedGlobalParams(cachedState) ==
    IF cachedState = Undefined THEN Undefined
    ELSE Property(cachedState, "globalParams")

GlobalParamsCalls == {"decay", "maxRatio", "weight"}

\* a mutant of Assemble: the cached state is spread last and wins
AssembleCacheLast(cachedState, globalParams, stakeToken, requestToken) ==
    LET cached(name, fresh) ==
            IF cachedState # Undefined /\ name \in DOMAIN cachedState
            THEN cachedState[name] ELSE fresh
    IN  [proposals        |-> cached("proposals", <<>>),
         convictionStakes |-> cached("convictionStakes", <<>>),
         globalParams     |-> cached("globalParams", globalParams),
         stakeToken       |-> cached("stakeToken", stakeToken),
         requestToken     |-> cached("requestToken", requestToken),
         isSyncing        |-> cached("isSyncing", TRUE)]

\* const inititalState = { proposals: [], convictionStakes: [],
\* ...cachedState, globalParams, stakeToken, requestToken, isSyncing: true };
\* the properties of the cache that no code of the script reads are left out
Assemble(cachedState, globalParams, stakeToken, requestToken) ==
    LET fromCache(name) ==
            IF cachedState # Undefined /\ name \in DOMAIN cachedState
            THEN cachedState[name] ELSE <<>>
    IN  [proposals        |-> fromCache("proposals"),
         convictionStakes |-> fromCache("convictionStakes"),
         globalParams     |-> globalParams,
         stakeToken       |-> stakeToken,
         requestToken     |-> requestToken,
         isSyncing        |-> TRUE]

\* the async function initState returns, applied to cachedState, with the
\* answers of the chain; `calls` are the calls it made. The result holds
\* the arrays by value: they are new objects of this run.
initState(cachedState, gpAnswer, tsAnswer, balAnswer) ==
    LET fetchGlobal == CachedGlobalParams(cachedState) = Undefined
        calls1 == IF fetchGlobal THEN GlobalParamsCalls ELSE {}
        globalParams ==
            IF fetchGlobal THEN loadGlobalParams(gpAnswer.value)
            ELSE CachedGlobalParams(cachedState)
        useCached == hasLoadedTokenSettings(cachedState)
        calls2 == calls1 \cup (IF useCached THEN {} ELSE {"loadTokenSettings"})
        stakeTokenSettings ==
            IF useCached THEN Property(cachedState, "stakeTokenSettings")
            ELSE tsAnswer.value
        calls3 == calls2 \cup {"updateBalances"}
        requestTokenSettings ==
            getRequestTokenSettings(requestTokenAddress, balAnswer.value)
    IN  IF fetchGlobal /\ ~gpAnswer.ok THEN InitRejected(calls1, "decay")
        ELSE IF ~useCached /\ ~tsAnswer.ok
             THEN InitRejected(calls2, "loadTokenSettings")
        ELSE IF ~balAnswer.ok THEN InitRejected(calls3, "updateBalances")
        \* stakeTokenSettings.tokenSymbol of undefined: a TypeError
        ELSE IF stakeTokenSettings = Undefined
             THEN InitRejected(calls3, "TypeError")
        ELSE [status |-> "ok",
              calls  |-> calls3 \cup {"identify"},
              value  |-> Assemble(cachedState, globalParams,
                                  stakeTokenSettings, requestTokenSettings)]

-----------------------------------------------------------------------------
(* The bootstrap: retryEvery(() => Promise.all([...]).then(initialize)) *)

NoCalls == [stakeToken |-> 0, vault |-> 0, requestToken |-> 0]

BootStart ==
    [issued |-> NoCalls, answers |-> <<>>, initializeRuns |-> 0,
     initialized |-> FALSE, stores |-> 0]

\* Promise.all([...]): the array holds the three calls, all issued
IssueCalls(issued) ==
    [stakeToken   |-> issued.stakeToken + 1,
     vault        |-> issued.vault + 1,
     requestToken |-> issued.requestToken + 1]

\* a mutant of Joined: the join fulfils when some promise fulfils
JoinedAny(answers) == \E i \in 1 .. Len(answers) : answers[i]

\* Promise.all fulfils when every promise fulfils
Joined(answers) == \A i \in 1 .. Len(answers) : answers[i]

\* one run of the callback: the three calls are issued and joined; then
\* initialize runs, awaits getVaultInitializationBlock (vaultBlockOk) and
\* calls app.store; .catch logs and throws the error again
BootstrapCallback(answers, vaultBlockOk) ==
    LET runs == Joined(answers)
    IN  /\ boot' = [issued         |-> IssueCalls(boot.issued),
                    answers        |-> answers,
                    initializeRuns |-> boot.initializeRuns + (IF runs THEN 1 ELSE 0),
                    initialized    |-> runs,
                    stores         |-> boot.stores +
                                        (IF runs /\ vaultBlockOk THEN 1 ELSE 0)]
        /\ pc' = IF runs /\ vaultBlockOk THEN "wired" ELSE pc
        /\ Attempt(runs /\ vaultBlockOk)

BootstrapAttempt ==
    /\ pc = "bootstrap"
    /\ \E answers \in [1 .. 3 -> BOOLEAN], vaultBlockOk \in BOOLEAN :
           BootstrapCallback(answers, vaultBlockOk)
    /\ UNCHANGED <<cache, state, heap, last>>

BootstrapWakeUp ==
    /\ pc = "bootstrap"
    /\ WakeUp
    /\ UNCHANGED storeVars

-----------------------------------------------------------------------------
(* The store: init, then one reduction per event *)

\* the store calls init(cachedState) once and holds the state it resolves to
InitStateStep ==
    /\ pc = "wired"
    /\ \E gp \in GlobalParamsAnswers, ts \in TokenSettingsAnswers,
          bal \in BalancesAnswers :
          LET r == initState(cache, gp, ts, bal)
          IN  /\ last' = [op |-> "init", cache |-> cache, status |-> r.status,
                          calls |-> r.calls,
                          tokenSettings |-> ts.value,
                          balances |-> bal.value,
                          error |-> IF r.status = "rejected" THEN r.error
                                    ELSE "none"]
              /\ IF r.status = "ok"
                 THEN /\ pc' = "produced"
                      /\ state' = [ref |-> 1, proposals |-> 1,
                                   convictionStakes |-> 2,
                                   globalParams |-> r.value.globalParams,
                                   stakeToken |-> r.value.stakeToken,
                                   requestToken |-> r.value.requestToken,
                                   isSyncing |-> r.value.isSyncing]
                      /\ heap' = [EmptyHeap EXCEPT
                                     ![1] = r.value.proposals,
                                     ![2] = r.value.convictionStakes]
                 ELSE /\ pc' = "initFailed"
                      /\ UNCHANGED <<state, heap>>
    /\ cache' = Undefined
    /\ UNCHANGED <<boot, retryVars>>

Entries(h, S) == Len(h[S.proposals]) + Len(h[S.convictionStakes])

\* the chain is asked for the total supply only by a stake token Transfer,
\* and for the balances only by a vault event for the watched token; an
\* answer nobody asks for is not drawn
TotalSupplyAsked(ev) ==
    addressesEqual(ev.address, stakeTokenAddress) /\ ev.event = "Transfer"

BalancesAsked(ev) ==
    /\ ~addressesEqual(ev.address, stakeTokenAddress)
    /\ addressesEqual(ev.address, vaultAddress)
    /\ ev.returnValues.token = requestTokenAddress

NoAnswer == [ok |-> FALSE, value |-> <<>>, error |-> "not asked"]

\* the store hands the next event to the reducer and holds what it resolves
\* to; when the reduction rejects the store keeps the state it had
ReduceStep ==
    /\ pc = "running"
    /\ \E ev \in Events :
       \E totalSupply \in
              IF TotalSupplyAsked(ev) THEN TotalSupplyAnswers ELSE {NoAnswer},
          balances \in
              IF BalancesAsked(ev) THEN BalancesAnswers ELSE {NoAnswer} :
          LET r == reducer(state, heap, ev, totalSupply, balances)
          IN  /\ Entries(r.heap, r.state) <= MaxEntries
              /\ last' = [op |-> "reduce", ev |-> ev, status |-> r.status,
                          input |-> RenamedInput(r.state, state),
                          before |-> Deref(state, heap),
                          totalSupply |-> totalSupply,
                          balances |-> balances,
                          error |-> IF r.status = "rejected" THEN r.error
                                    ELSE "none"]
              /\ state' = RenamedState(r.state)
              /\ heap' = RenamedHeap(r.state, state, r.heap)
    /\ pc' = "produced"
    /\ UNCHANGED <<boot, cache, retryVars>>

\* the store publishes and caches the state it holds; the observers take
\* it, and the state they held before is dropped with its arrays
Publish ==
    /\ pc = "produced"
    /\ pc' = "running"
    /\ heap' = Collect(heap, state)
    /\ last' = [op |-> "none"]
    /\ UNCHANGED <<boot, cache, state, retryVars>>

\* the script is started again: the store hands the state it cached, a copy
\* by value, to init
Restart ==
    /\ pc = "running"
    /\ \E loaded \in BOOLEAN :
           cache' = [proposals           |-> heap[state.proposals],
                     convictionStakes    |-> heap[state.convictionStakes],
                     globalParams        |-> state.globalParams,
                     stakeToken          |-> state.stakeToken,
                     requestToken        |-> state.requestToken,
                     isSyncing           |-> state.isSyncing,
                     loadedTokenSettings |-> loaded]
    /\ pc' = "wired"
    /\ state' = Undefined
    /\ heap' = EmptyHeap
    /\ last' = [op |-> "none"]
    /\ UNCHANGED <<boot, retryVars>>

\* a cache written by an earlier version of the script: the token settings
\* under stakeTokenSettings, no globalParams
LegacyCache ==
    [proposals           |-> <<>>,
     convictionStakes    |-> <<>>,
     stakeTokenSettings  |-> [tokenSymbol |-> "OLD", tokenSupply |-> "1000"],
     isSyncing           |-> FALSE,
     loadedTokenSettings |-> TRUE]

InitialCaches == {Undefined, LegacyCache}

-----------------------------------------------------------------------------
(* Specifications *)

\* the script from the moment the bootstrap has wired the store
Init ==
    /\ opts = DefaultOptions
    /\ rpc = "resolved"
    /\ retryNum = 0
    /\ retryTimer = DefaultOptions.initialRetryTimer
    /\ outcomes = <<"ok">>
    /\ waits = <<>>
    /\ settled = [kind |-> "resolved", call |-> 1]
    /\ pc = "wired"
    /\ boot = [issued |-> IssueCalls(NoCalls), answers |-> [i \in 1 .. 3 |-> TRUE],
               initializeRuns |-> 1, initialized |-> TRUE, stores |-> 1]
    /\ cache \in InitialCaches
    /\ state = Undefined
    /\ heap = EmptyHeap
    /\ last = [op |-> "none"]

Next == InitStateStep \/ ReduceStep \/ Publish \/ Restart

Spec == Init /\ [][Next]_vars

\* the bootstrap, from the start of the script until the store is wired or
\* the retries are exhausted
InitBoot ==
    /\ RetryStart(DefaultOptions)
    /\ pc = "bootstrap"
    /\ boot = BootStart
    /\ cache = Undefined
    /\ state = Undefined
    /\ heap = EmptyHeap
    /\ last = [op |-> "none"]

NextBoot == BootstrapAttempt \/ BootstrapWakeUp

SpecBoot == InitBoot /\ [][NextBoot]_vars

\* retryEvery alone, with a callback that succeeds or fails at each call
InitRetry ==
    /\ \E o \in OptionSamples : RetryStart(o)
    /\ pc = "retry"
    /\ boot = BootStart
    /\ cache = Undefined
    /\ state = Undefined
    /\ heap = EmptyHeap
    /\ last = [op |-> "none"]

CallbackAttempt ==
    /\ pc = "retry"
    /\ \E ok \in BOOLEAN : Attempt(ok)
    /\ UNCHANGED storeVars

CallbackWakeUp ==
    /\ pc = "retry"
    /\ WakeUp
    /\ UNCHANGED storeVars

NextRetry == CallbackAttempt \/ CallbackWakeUp

SpecRetry == InitRetry /\ [][NextRetry]_vars

-----------------------------------------------------------------------------
(* Properties of the reducer *)

\* the state has just been produced by a reduction that fulfilled
Reduced == pc = "produced" /\ last.op = "reduce" /\ last.status = "ok"

\* what the holder of the reduction's input state sees after the reduction
InputAfter == Deref(last.input, heap)

\* the state the reduction returned, arrays included
Output == Deref(state, heap)

FromStakeToken(ev) == ev.address # Undefined /\ ev.address.a = "stakeToken"

FromVaultForWatchedToken(ev) ==
    /\ ev.address # Undefined
    /\ ev.address.a = "vault"
    /\ ev.returnValues.token = requestTokenAddress

\* the event is looked up in the switch on the event name
ReachesSwitch(ev) == ~FromStakeToken(ev) /\ ~FromVaultForWatchedToken(ev)

IsPrefix(s, t) == Len(s) <= Len(t) /\ \A i \in 1 .. Len(s) : s[i] = t[i]

SameProposal(p, q) ==
    /\ p.id = q.id
    /\ p.name = q.name
    /\ p.link = q.link
    /\ p.requestedAmount = q.requestedAmount
    /\ p.creator = q.creator
    /\ p.beneficiary = q.beneficiary

\* C1: a reduction never shortens proposals or convictionStakes, and every
\* entry present before it is at the same position after it, a proposal with
\* the same id, name, link, amount, creator and beneficiary, a stake
\* unchanged; a reduction that rejects leaves the state as it was.
AppendOnly ==
    (pc = "produced" /\ last.op = "reduce") =>
        /\ Len(last.before.proposals) <= Len(Output.proposals)
        /\ \A i \in 1 .. Len(last.before.proposals) :
               SameProposal(last.before.proposals[i], Output.proposals[i])
        /\ IsPrefix(last.before.convictionStakes, Output.convictionStakes)

AppendOnlyWitness ==
    /\ Reduced
    /\ last.before.proposals # <<>>
    /\ last.before.convictionStakes # <<>>
    /\ last.ev.event = "ProposalExecuted"
    /\ Output.proposals # last.before.proposals

\* C2: after a ProposalAdded, StakeChanged or ProposalExecuted that reaches
\* the switch, the input state, its arrays included, is what it was before
\* the call.
InputNotMutated ==
    (/\ Reduced
     /\ ReachesSwitch(last.ev)
     /\ last.ev.event \in {"ProposalAdded", "StakeChanged", "ProposalExecuted"})
        => InputAfter = last.before

\* the events C3 calls unhandled
Unhandled(ev) ==
    /\ ~(FromStakeToken(ev) /\ ev.event = "Transfer")
    /\ ~FromVaultForWatchedToken(ev)
    /\ ev.event \notin {"ProposalAdded", "StakeChanged", "ProposalExecuted",
                         SYNC_STATUS_SYNCING, SYNC_STATUS_SYNCED}

\* C3 as stated: an unhandled event returns the very object it was given.
UnhandledReturnsSameObject ==
    (Reduced /\ Unhandled(last.ev)) => state.ref = last.input.ref

\* C3, amended: an unhandled event returns a new object, a shallow copy of
\* the input: another identity, the same two arrays, every field equal.
UnhandledReturnsCopy ==
    (Reduced /\ Unhandled(last.ev)) =>
        /\ state.ref # last.input.ref
        /\ state.proposals = last.input.proposals
        /\ state.convictionStakes = last.input.convictionStakes
        /\ Output = last.before
        /\ InputAfter = last.before

UnhandledWitness ==
    /\ Reduced
    /\ Unhandled(last.ev)
    /\ last.ev.event = "VaultDeposit"
    /\ last.before.proposals # <<>>

-----------------------------------------------------------------------------
(* Properties of retryEvery *)

AllFailed == \A i \in 1 .. Len(outcomes) : outcomes[i] = "err"

\* C4: while the callback fails at every call it is invoked at most
\* maxRetries + 1 times; the promise rejects exactly at invocation
\* maxRetries + 1, with the error of that invocation, and nothing runs after
\* it; with maxRetries = 0 it rejects without having slept.
RetryTermination ==
    AllFailed =>
        /\ Len(outcomes) <= opts.maxRetries + 1
        /\ (rpc = "rejected") <=>
               (Len(outcomes) = opts.maxRetries + 1 /\ settled.kind = "rejected")
        /\ rpc = "rejected" =>
               /\ settled = [kind |-> "rejected", call |-> Len(outcomes)]
               /\ Len(waits) = opts.maxRetries
               /\ ~ENABLED NextRetry
        /\ rpc # "rejected" => settled = Pending

RetryTerminationWitness ==
    /\ rpc = "rejected"
    /\ opts.maxRetries = 3
    /\ Len(outcomes) = 4
    /\ settled.call = 4

\* C5: when the callback first succeeds at its k-th call the promise
\* resolves with the value of that call, the callback has been invoked k
\* times, sleep k - 1 times, k is at most maxRetries + 1, and nothing runs
\* after it.
RetryShortCircuit ==
    (\E k \in 1 .. Len(outcomes) : outcomes[k] = "ok") =>
        LET k == Len(outcomes)
        IN  /\ \A i \in 1 .. k - 1 : outcomes[i] = "err"
            /\ rpc = "resolved"
            /\ settled = [kind |-> "resolved", call |-> k]
            /\ Len(waits) = k - 1
            /\ k <= opts.maxRetries + 1
            /\ ~ENABLED NextRetry

RetryShortCircuitWitness ==
    /\ rpc = "resolved"
    /\ Len(outcomes) = 2
    /\ Len(waits) = 1
    /\ settled.call = 2

-----------------------------------------------------------------------------
(* Properties of the cases of the switch *)

\* every field of the state but proposals is what it was
OnlyProposalsChange ==
    /\ Output.convictionStakes = last.before.convictionStakes
    /\ Output.globalParams = last.before.globalParams
    /\ Output.stakeToken = last.before.stakeToken
    /\ Output.requestToken = last.before.requestToken
    /\ Output.isSyncing = last.before.isSyncing

\* the proposal p after a ProposalExecuted of its id
Flipped(p, q) == SameProposal(p, q) /\ DOMAIN q = DOMAIN p \cup {"executed"}
                 /\ q.executed = TRUE

\* C6: a ProposalExecuted that reaches the switch returns proposals of the
\* same length and order where each proposal whose id is (===) the parsed
\* event id has executed = true and every other proposal is equal to what it
\* was; no other field of the state changes.
ExecutedFlagFlip ==
    (Reduced /\ ReachesSwitch(last.ev) /\ last.ev.event = "ProposalExecuted") =>
        LET old == last.before.proposals
            new == Output.proposals
            id  == parseInt(last.ev.returnValues.id)
        IN  /\ Len(new) = Len(old)
            /\ \A i \in 1 .. Len(old) :
                   IF id.k = "num" /\ old[i].id = id
                   THEN Flipped(old[i], new[i])
                   ELSE new[i] = old[i]
            /\ OnlyProposalsChange

ExecutedFlagFlipWitness ==
    /\ Reduced
    /\ ReachesSwitch(last.ev)
    /\ last.ev.event = "ProposalExecuted"
    /\ Len(last.before.proposals) = 2
    /\ \E i, j \in 1 .. 2 :
           /\ "executed" \notin DOMAIN last.before.proposals[i]
           /\ "executed" \in DOMAIN Output.proposals[i]
           /\ Output.proposals[i].executed = TRUE
           /\ Output.proposals[j] = last.before.proposals[j]
           /\ "executed" \notin DOMAIN Output.proposals[j]

\* the proposal C7 expects, but for its link
ExpectedProposal(returnValues, link) ==
    [id              |-> parseInt(returnValues.id),
     name            |-> returnValues.title,
     link            |-> link,
     requestedAmount |-> parseInt(returnValues.amount),
     creator         |-> returnValues.entity,
     beneficiary     |-> returnValues.beneficiary]

NonEmpty(link) == link.k = "str" /\ link.s # <<>>

ProposalAddedReduced ==
    Reduced /\ ReachesSwitch(last.ev) /\ last.ev.event = "ProposalAdded"

\* C7 as stated: ProposalAdded appends one proposal whose link is the
\* decoded text of a non-empty returnValues.link and null otherwise.
ProposalAddedLinkNull ==
    ProposalAddedReduced =>
        LET rv == last.ev.returnValues
        IN  Output.proposals =
                Append(last.before.proposals,
                       ExpectedProposal(rv, IF NonEmpty(rv.link)
                                            THEN Str(toUtf8(rv.link.s))
                                            ELSE Null))

\* C7, amended: ProposalAdded appends one proposal at the end of proposals,
\* with id and requestedAmount parsed, name = title, creator = entity,
\* beneficiary = beneficiary, and link = the decoded text of a non-empty
\* returnValues.link, and returnValues.link itself otherwise ("" stays "",
\* null stays null).
ProposalAddedAppends ==
    ProposalAddedReduced =>
        LET rv == last.ev.returnValues
        IN  Output.proposals =
                Append(last.before.proposals,
                       ExpectedProposal(rv, IF NonEmpty(rv.link)
                                            THEN Str(toUtf8(rv.link.s))
                                            ELSE rv.link))

ProposalAddedWitness ==
    /\ ProposalAddedReduced
    /\ last.ev.returnValues.link = Str(<<>>)
    /\ last.before.proposals # <<>>
    /\ Output.proposals[Len(Output.proposals)].link = Str(<<>>)
    /\ Output.proposals[Len(Output.proposals)].id = Num(1)
    /\ Output.proposals[Len(Output.proposals)].requestedAmount = Num(500)

-----------------------------------------------------------------------------
(* Properties of the bootstrap *)

Failures == Cardinality({i \in 1 .. Len(outcomes) : outcomes[i] = "err"})

AllThree(answers) == answers[1] /\ answers[2] /\ answers[3]

\* C8: every attempt issues the three calls; initialize runs in an attempt
\* only when the three calls of that attempt succeeded; an attempt in which
\* one of them failed fails as a whole, wires nothing and is followed by a
\* sleep and a new attempt while retries are left; once maxRetries retries
\* are spent the promise rejects and no store is wired.
BootstrapJoin ==
    LET n == Len(outcomes)
    IN  /\ boot.issued = [stakeToken |-> n, vault |-> n, requestToken |-> n]
        /\ n > 0 =>
               /\ boot.initialized <=> AllThree(boot.answers)
               /\ ~AllThree(boot.answers) =>
                      /\ outcomes[n] = "err"
                      /\ boot.stores = 0
                      /\ pc = "bootstrap"
                      /\ IF n <= opts.maxRetries
                         THEN rpc \in {"sleeping", "attempt"} /\ Len(waits) = n
                         ELSE rpc = "rejected"
        /\ boot.initializeRuns <= n
        /\ boot.stores = (IF pc = "wired" THEN 1 ELSE 0)
        /\ pc = "wired" <=> rpc = "resolved"
        /\ pc = "wired" => boot.initialized /\ outcomes[n] = "ok"
        /\ rpc = "rejected" =>
               /\ n = opts.maxRetries + 1
               /\ Failures = n
               /\ boot.stores = 0
               /\ ~ENABLED NextBoot

BootstrapJoinWitness ==
    /\ pc = "wired"
    /\ Len(outcomes) = 3
    /\ boot.issued.requestToken = 3
    /\ boot.initializeRuns = 1
    /\ Len(waits) = 2

-----------------------------------------------------------------------------
(* Properties of initState *)

Initialised == pc = "produced" /\ last.op = "init" /\ last.status = "ok"

HasGlobalParams(c) == c # Undefined /\ "globalParams" \in DOMAIN c

\* the global params of the chain's answer 9, 20, 5: 9/10, 20/10, 5/100
FetchedGlobalParams ==
    [alpha    |-> [k |-> "frac", n |-> 9, d |-> 10],
     maxRatio |-> Num(2),
     weight   |-> [k |-> "frac", n |-> 1, d |-> 20]]

\* C9: with a cached globalParams, init calls none of decay, maxRatio and
\* weight and the state it produces holds the cached globalParams; without
\* one (no cache, or a cache with no globalParams) it calls the three and
\* the state holds their values divided by 10, 10 and 100.
CacheHonoring ==
    (pc \in {"produced", "initFailed"} /\ last.op = "init") =>
        IF HasGlobalParams(last.cache)
        THEN /\ last.calls \cap {"decay", "maxRatio", "weight"} = {}
             /\ last.status = "ok" =>
                    state.globalParams = last.cache.globalParams
        ELSE /\ {"decay", "maxRatio", "weight"} \subseteq last.calls
             /\ last.status = "ok" => state.globalParams = FetchedGlobalParams

CacheHonoringWitness ==
    /\ Initialised
    /\ HasGlobalParams(last.cache)
    /\ state.globalParams = last.cache.globalParams
    /\ "updateBalances" \in last.calls

\* C10: the state init produces has isSyncing = true whatever the cache
\* held; a reduction sets isSyncing to true on the syncing marker and to
\* false on the synced marker when the marker reaches the switch, and every
\* other reduction leaves isSyncing as it was.
SyncingLifecycle ==
    /\ Initialised => state.isSyncing = TRUE
    /\ Reduced =>
           IF ReachesSwitch(last.ev) /\ last.ev.event = SYNC_STATUS_SYNCING
           THEN state.isSyncing = TRUE
           ELSE IF ReachesSwitch(last.ev) /\ last.ev.event = SYNC_STATUS_SYNCED
                THEN state.isSyncing = FALSE
                ELSE state.isSyncing = last.before.isSyncing

SyncingLifecycleWitness ==
    /\ Initialised
    /\ last.cache # Undefined
    /\ "globalParams" \in DOMAIN last.cache
    /\ last.cache.isSyncing = FALSE
    /\ state.isSyncing = TRUE

-----------------------------------------------------------------------------
(* Properties of the backoff *)

RECURSIVE Power(_, _)
Power(b, e) == IF e = 0 THEN 1 ELSE b * Power(b, e - 1)

BackoffAsDocumented ==
    \A k \in 1 .. Len(waits) :
        waits[k] = IF k = 1 THEN opts.initialRetryTimer
                   ELSE waits[k - 1] * opts.increaseFactor

-----------------------------------------------------------------------------
(* Properties of the dispatch on the source *)

\* a vault event for a token other than the watched one (by ===)
FromVaultForOtherToken(ev) ==
    /\ ev.address # Undefined
    /\ ev.address.a = "vault"
    /\ ev.returnValues.token # requestTokenAddress

HandledNames ==
    {"ProposalAdded", "StakeChanged", "ProposalExecuted",
     SYNC_STATUS_SYNCING, SYNC_STATUS_SYNCED}

\* C13 as stated: a vault event for a token that is not the watched one
\* leaves the state unchanged whatever event name it carries.
VaultOtherTokenUnchanged ==
    (Reduced /\ FromVaultForOtherToken(last.ev)) => Output = last.before

\* C13, amended: a vault event for a token that is not the watched one is
\* looked up in the switch like an event of any other source: the token
\* fields and globalParams stay as they were, a name the switch does not
\* know leaves every field as it was, ProposalAdded and StakeChanged append
\* one entry to their array, ProposalExecuted keeps the length of proposals
\* and the sync markers set isSyncing.
VaultOtherTokenSwitched ==
    (Reduced /\ FromVaultForOtherToken(last.ev)) =>
        /\ Output.requestToken = last.before.requestToken
        /\ Output.stakeToken = last.before.stakeToken
        /\ Output.globalParams = last.before.globalParams
        /\ last.ev.event \notin HandledNames => Output = last.before
        /\ Len(Output.proposals) = Len(last.before.proposals) +
               (IF last.ev.event = "ProposalAdded" THEN 1 ELSE 0)
        /\ Len(Output.convictionStakes) = Len(last.before.convictionStakes) +
               (IF last.ev.event = "StakeChanged" THEN 1 ELSE 0)
        /\ last.ev.event = SYNC_STATUS_SYNCING => Output.isSyncing = TRUE
        /\ last.ev.event = SYNC_STATUS_SYNCED => Output.isSyncing = FALSE

VaultOtherTokenWitness ==
    /\ Reduced
    /\ FromVaultForOtherToken(last.ev)
    /\ last.ev.event = "ProposalAdded"
    /\ last.ev.returnValues.token = Address("requestToken", "lower")
    /\ Len(Output.proposals) = Len(last.before.proposals) + 1

\* C14: of the events of the stake token, a Transfer changes only
\* stakeToken.tokenSupply, to the total supply just read, and an event of
\* any other name, the names the switch knows included, leaves every field
\* as it was; in both cases the input state is untouched.
StakeTokenFirst ==
    (Reduced /\ FromStakeToken(last.ev)) =>
        /\ IF last.ev.event = "Transfer"
           THEN /\ last.totalSupply.ok
                /\ Output =
                       [last.before EXCEPT !.stakeToken =
                           [tokenSymbol |-> last.before.stakeToken.tokenSymbol,
                            tokenSupply |-> last.totalSupply.value]]
           ELSE Output = last.before
        /\ InputAfter = last.before

StakeTokenFirstWitness ==
    /\ Reduced
    /\ FromStakeToken(last.ev)
    /\ last.ev.event = "Transfer"
    /\ last.before.proposals # <<>>
    /\ last.before.stakeToken.tokenSupply = "1000"
    /\ Output.stakeToken.tokenSupply = "2000"

\* the requestToken the resolver builds from the balances the vault answered
ResolvedRequestToken(address, balances) ==
    [symbol |-> balances[1].symbol, amount |-> balances[1].amount,
     address |-> address]

\* C15: a vault event for the watched token changes requestToken, to the
\* first balance the vault answers with the event's token as address, and no
\* other field, whatever name the event carries; the input state is
\* untouched.
VaultWatchedToken ==
    (Reduced /\ FromVaultForWatchedToken(last.ev)) =>
        /\ last.balances.ok
        /\ Output =
               [last.before EXCEPT !.requestToken =
                   ResolvedRequestToken(last.ev.returnValues.token,
                                        last.balances.value)]
        /\ InputAfter = last.before

VaultWatchedTokenWitness ==
    /\ Reduced
    /\ FromVaultForWatchedToken(last.ev)
    /\ last.ev.event = "ProposalAdded"
    /\ Output.requestToken # last.before.requestToken
    /\ Output.proposals = last.before.proposals

-----------------------------------------------------------------------------
(* Properties of the token settings and of the assembled state *)

InitDone == pc \in {"produced", "initFailed"} /\ last.op = "init"

\* the cache-presence predicate said the token settings are loaded
SaidLoaded(c) == c # Undefined /\ c.loadedTokenSettings

\* C16: when the predicate reports the token settings loaded, init does not
\* call loadTokenSettings, does not throw, and the state's stakeToken is the
\* settings the cached state holds under stakeToken; otherwise it calls
\* loadTokenSettings and the state's stakeToken is what that answered.
TokenSettingsReused ==
    InitDone =>
        IF SaidLoaded(last.cache)
        THEN /\ "loadTokenSettings" \notin last.calls
             /\ last.error # "TypeError"
             /\ (last.status = "ok" /\ "stakeToken" \in DOMAIN last.cache) =>
                    state.stakeToken = last.cache.stakeToken
        ELSE /\ last.error # "decay" => "loadTokenSettings" \in last.calls
             /\ last.status = "ok" => state.stakeToken = last.tokenSettings

-----------------------------------------------------------------------------
(* Properties of the executed flag over the life of a proposal *)

HasExecuted(p) == "executed" \in DOMAIN p

HoldsState == pc \in {"running", "produced"}

\* C17: every proposal of every state the store holds carries an executed
\* property that is a boolean, false until the proposal is executed.
ExecutedAlwaysBoolean ==
    HoldsState =>
        \A i \in 1 .. Len(Output.proposals) :
            /\ HasExecuted(Output.proposals[i])
            /\ Output.proposals[i].executed \in BOOLEAN

\* what the reducer does keep: a proposal has no executed property from the
\* ProposalAdded that created it until a ProposalExecuted with its id is
\* reduced by the switch; from then on executed is true. The property is
\* never false and never goes away, and no reduction removes a proposal.
ExecutedAbsentThenTrue ==
    /\ HoldsState =>
           \A i \in 1 .. Len(Output.proposals) :
               HasExecuted(Output.proposals[i]) =>
                   Output.proposals[i].executed = TRUE
    /\ (Reduced /\ ReachesSwitch(last.ev) /\ last.ev.event = "ProposalAdded") =>
           ~HasExecuted(Output.proposals[Len(Output.proposals)])
    /\ (pc = "produced" /\ last.op = "reduce") =>
           /\ Len(last.before.proposals) <= Len(Output.proposals)
           /\ \A i \in 1 .. Len(last.before.proposals) :
                  LET named == /\ last.status = "ok"
                               /\ ReachesSwitch(last.ev)
                               /\ last.ev.event = "ProposalExecuted"
                               /\ StrictEq(last.before.proposals[i].id,
                                           parseInt(last.ev.returnValues.id))
                  IN  HasExecuted(Output.proposals[i]) <=>
                          (HasExecuted(last.before.proposals[i]) \/ named)

ExecutedAbsentThenTrueWitness ==
    /\ Reduced
    /\ ReachesSwitch(last.ev)
    /\ last.ev.event = "ProposalExecuted"
    /\ Len(Output.proposals) = 2
    /\ HasExecuted(last.before.proposals[1])
    /\ Output.proposals[1].executed = TRUE
    /\ ~HasExecuted(Output.proposals[2])

-----------------------------------------------------------------------------
(* Properties of a reduction whose awaited call rejects *)

SupplyReadFailed ==
    /\ FromStakeToken(last.ev)
    /\ last.ev.event = "Transfer"
    /\ ~last.totalSupply.ok

BalanceUpdateFailed ==
    /\ FromVaultForWatchedToken(last.ev)
    /\ ~last.balances.ok

\* C18: when the total supply read of a stake token Transfer or the balance
\* update of a vault event for the watched token rejects, the reduction
\* rejects with that error; a reduction rejects for no other reason, and
\* then the store holds the object it gave, with every field and both
\* arrays as they were.
RejectionPropagates ==
    (pc = "produced" /\ last.op = "reduce") =>
        /\ SupplyReadFailed =>
               last.status = "rejected" /\ last.error = last.totalSupply.value
        /\ BalanceUpdateFailed =>
               last.status = "rejected" /\ last.error = last.balances.error
        /\ last.status = "rejected" =>
               /\ SupplyReadFailed \/ BalanceUpdateFailed
               /\ state.ref = last.input.ref
               /\ Output = last.before
               /\ InputAfter = last.before

RejectionPropagatesWitness ==
    /\ pc = "produced"
    /\ last.op = "reduce"
    /\ BalanceUpdateFailed
    /\ last.ev.event = "StakeChanged"
    /\ last.status = "rejected"
    /\ last.error = "updateBalances rejected"
    /\ last.before.convictionStakes # <<>>

-----------------------------------------------------------------------------
(* Properties of StakeChanged *)

StakeChangedReduced ==
    Reduced /\ ReachesSwitch(last.ev) /\ last.ev.event = "StakeChanged"

\* the ConvictionStake a StakeChanged event stands for
ExpectedStake(ev) ==
    [entity            |-> ev.returnValues.entity,
     proposal          |-> parseInt(ev.returnValues.id),
     tokensStaked      |-> parseInt(ev.returnValues.tokensStaked),
     totalTokensStaked |-> parseInt(ev.returnValues.totalTokensStaked),
     time              |-> ev.blockNumber,
     conviction        |-> parseInt(ev.returnValues.conviction)]

\* C19: a StakeChanged that reaches the switch puts one stake at the end of
\* convictionStakes, with the entity, the id, the staked amounts and the
\* conviction parsed to integers and the event's block number as time; the
\* stakes before it and every other field are as they were.
StakeChangedAppends ==
    StakeChangedReduced =>
        Output = [last.before EXCEPT !.convictionStakes =
                      Append(@, ExpectedStake(last.ev))]

StakeChangedWitness ==
    /\ StakeChangedReduced
    /\ last.ev.blockNumber = 101
    /\ last.before.convictionStakes # <<>>
    /\ last.before.convictionStakes[1].time = 100
    /\ Output.convictionStakes[2].tokensStaked = Num(-1)
    /\ Output.convictionStakes[2].proposal = NaN

-----------------------------------------------------------------------------
(* Properties of the state init assembles *)

\* C20: without a cache init fails only when a call to the chain rejects,
\* and the state it produces has empty proposals and convictionStakes; with
\* a cache the state holds the cached proposals and convictionStakes; in
\* both cases globalParams, stakeToken, requestToken and isSyncing are the
\* resolved values, requestToken being built from the balances read in this
\* run, never the cached one.
InitAssembles ==
    InitDone =>
        /\ last.cache = Undefined =>
               last.error \in {"none", "decay", "loadTokenSettings",
                               "updateBalances"}
        /\ last.status = "ok" =>
               /\ Output.proposals =
                      IF last.cache = Undefined THEN <<>>
                      ELSE last.cache.proposals
               /\ Output.convictionStakes =
                      IF last.cache = Undefined THEN <<>>
                      ELSE last.cache.convictionStakes
               /\ "updateBalances" \in last.calls
               /\ Output.requestToken =
                      ResolvedRequestToken(requestTokenAddress, last.balances)
               /\ Output.isSyncing = TRUE
               /\ Output.stakeToken =
                      IF SaidLoaded(last.cache)
                      THEN last.cache.stakeTokenSettings
                      ELSE last.tokenSettings
               /\ Output.globalParams =
                      IF HasGlobalParams(last.cache)
                      THEN last.cache.globalParams
                      ELSE FetchedGlobalParams

InitAssemblesWitness ==
    /\ Initialised
    /\ last.cache # Undefined
    /\ last.cache.proposals # <<>>
    /\ last.cache.convictionStakes # <<>>
    /\ "requestToken" \in DOMAIN last.cache
    /\ last.cache.requestToken # Output.requestToken
    /\ last.cache.stakeToken # Output.stakeToken
    /\ last.cache.isSyncing = FALSE

InitWithoutCacheWitness ==
    /\ Initialised
    /\ last.cache = Undefined
    /\ Output.proposals = <<>>

====
